---- MODULE Spec2Model ----
(***************************************************************************)
(* A model of MEDEA's entity linking: the mention dispatcher               *)
(* (MultiEntityLinker), the organization and location resolvers, and the   *)
(* shared EntityLinker base (context extraction, candidate scoring,        *)
(* record projection).                                                     *)
(*                                                                         *)
(* Python strings are sequences of one-character strings.  Python list     *)
(* positions are 0-based; a sequence position p of the model is the Python *)
(* index p - 1.                                                            *)
(***************************************************************************)
EXTENDS Integers, Sequences, FiniteSets, TLC

VARIABLES cx, rt, sc, pj, args, loop, call

vars == <<cx, rt, sc, pj, args, loop, call>>

(***************************************************************************)
(* Bounds of the model.                                                    *)
(***************************************************************************)
MaxTextLen == 5
MaxSentences == 9
MaxWindow == 2
MaxHits == 3
MaxResults == 3
MaxCandidates == 3
MaxClaims == 2
MaxMentions == 2
MaxMentionHits == 2

(***************************************************************************)
(* Strings and lists.                                                      *)
(***************************************************************************)
Range(s) == {s[i] : i \in DOMAIN s}

RECURSIVE SeqsUpTo(_, _)
\* All sequences over S of length 0..n.
SeqsUpTo(S, n) ==
    IF n = 0 THEN {<<>>}
    ELSE LET shorter == SeqsUpTo(S, n - 1)
         IN  shorter \cup {Append(s, x) : s \in {t \in shorter : Len(t) = n - 1}, x \in S}

RECURSIVE Join(_, _)
\* sep.join(parts)
Join(parts, sep) ==
    IF parts = <<>> THEN <<>>
    ELSE IF Len(parts) = 1 THEN parts[1]
    ELSE parts[1] \o sep \o Join(Tail(parts), sep)

\* list.index(x): the position of the FIRST element equal to x.
Index(list, x) ==
    CHOOSE i \in DOMAIN list : list[i] = x /\ \A j \in 1..(i - 1) : list[j] # x

RECURSIVE SortedSeq(_)
\* sorted(S) for a set of integers.
SortedSeq(S) ==
    IF S = {} THEN <<>>
    ELSE LET m == CHOOSE x \in S : \A y \in S : x <= y
         IN  <<m>> \o SortedSeq(S \ {m})

Min(a, b) == IF a < b THEN a ELSE b
Max(a, b) == IF a > b THEN a ELSE b

(***************************************************************************)
(* Tokenizers.                                                             *)
(***************************************************************************)
IsSpace(c) == c = " "

RECURSIVE re_split_ws(_)
\* re.split('\s', text): a cut at every whitespace character, so two
\* whitespace characters in a row give an empty token.
re_split_ws(text) ==
    IF \A i \in DOMAIN text : ~IsSpace(text[i]) THEN <<text>>
    ELSE LET k == CHOOSE i \in DOMAIN text :
                      IsSpace(text[i]) /\ \A j \in 1..(i - 1) : ~IsSpace(text[j])
         IN  <<SubSeq(text, 1, k - 1)>> \o re_split_ws(SubSeq(text, k + 1, Len(text)))

RECURSIVE sent_tokenize(_)
\* nltk's sent_tokenize on texts whose sentences end with a period: a
\* sentence ends at a period that is followed by whitespace, and the
\* whitespace between two sentences belongs to neither.
sent_tokenize(text) ==
    LET Ends(i) == text[i] = "." /\ i < Len(text) /\ IsSpace(text[i + 1])
    IN  IF \A i \in DOMAIN text : ~Ends(i) THEN <<text>>
        ELSE LET k == CHOOSE i \in DOMAIN text : Ends(i) /\ \A j \in 1..(i - 1) : ~Ends(j)
             IN  <<SubSeq(text, 1, k)>> \o sent_tokenize(SubSeq(text, k + 2, Len(text)))

(***************************************************************************)
(* Context extraction.                                                     *)
(***************************************************************************)
RECURSIVE CumulativeCount(_, _, _)
\* character_count after the loop body has run for units 1..i; every unit
\* adds its length plus `extra` (1 for words, 0 for sentences).
CumulativeCount(units, extra, i) ==
    IF i = 0 THEN 0 ELSE CumulativeCount(units, extra, i - 1) + Len(units[i]) + extra

\* The for loop that looks for the unit of the mention: the position the loop
\* assigns to selected_*_id, or 0 when the loop ends without assigning it
\* (the name stays unbound).
SelectedId(units, extra, start_char) ==
    LET hits == {i \in DOMAIN units : CumulativeCount(units, extra, i) > start_char}
    IN  IF hits = {} THEN 0
        ELSE LET first == CHOOSE i \in hits : \A j \in hits : i <= j
             IN  Index(units, units[first])

\* list(np.arange(minimum_id, maximum_id)) mapped through clip_function and
\* collected in a set; Python indices, so position p stands for index p - 1.
ClippedIds(n, selected, context_window) ==
    {Min(Max(x, 0), n - 1) :
        x \in ((selected - 1) - context_window)..((selected - 1) + context_window)}

\* The slot table of a CPython set that was filled with `size` small
\* non-negative integers: 8 slots, regrown to 32 when the fifth key arrives
\* and to 128 when the nineteenth does.
SetTableSize(size) == IF size < 5 THEN 8 ELSE IF size < 19 THEN 32 ELSE 128

RECURSIVE SetIterOrder(_, _)
\* Iteration over a set of small non-negative integers goes through the slot
\* table; an integer hashes to itself and sits in slot (hash mod table size).
SetIterOrder(S, table) ==
    IF S = {} THEN <<>>
    ELSE LET m == CHOOSE x \in S : \A y \in S :
                      (x % table < y % table) \/ (x % table = y % table /\ x <= y)
         IN  <<m>> \o SetIterOrder(S \ {m}, table)

Raised == [raised |-> TRUE, ids |-> <<>>, value |-> <<>>]
Returned(ids, value) == [raised |-> FALSE, ids |-> ids, value |-> value]

\* extract_context_by_words.  ids: the Python indices of the selected words
\* in the order they are joined.
extract_context_by_words(text, start_char, context_window) ==
    LET words == re_split_ws(text)
        selected_word_id == SelectedId(words, 1, start_char)
    IN  IF selected_word_id = 0 THEN Raised
        ELSE IF context_window = 0
        THEN Returned(<<selected_word_id - 1>>, words[selected_word_id])
        ELSE LET ids == SortedSeq(ClippedIds(Len(words), selected_word_id, context_window))
             IN  Returned(ids, Join([k \in DOMAIN ids |-> words[ids[k] + 1]], <<" ">>))

\* extract_context_by_sentences: as for words, but the counter adds no
\* separator, the set of ids is not sorted and the join has no separator.
extract_context_by_sentences(text, start_char, context_window) ==
    LET sentences == sent_tokenize(text)
        selected_sentence_id == SelectedId(sentences, 0, start_char)
    IN  IF selected_sentence_id = 0 THEN Raised
        ELSE IF context_window = 0
        THEN Returned(<<selected_sentence_id - 1>>, sentences[selected_sentence_id])
        ELSE LET S == ClippedIds(Len(sentences), selected_sentence_id, context_window)
                 ids == SetIterOrder(S, SetTableSize(Cardinality(S)))
             IN  Returned(ids, Join([k \in DOMAIN ids |-> sentences[ids[k] + 1]], <<>>))

ExtractContext(granularity, text, start_char, context_window) ==
    IF granularity = "word"
    THEN extract_context_by_words(text, start_char, context_window)
    ELSE extract_context_by_sentences(text, start_char, context_window)

Units(granularity, text) ==
    IF granularity = "word" THEN re_split_ws(text) ELSE sent_tokenize(text)

(***************************************************************************)
(* The context specification: a text, an offset and two windows are drawn, *)
(* and the extraction of the chosen granularity is applied with each       *)
(* window.                                                                 *)
(***************************************************************************)
WordChars == {"a", "b", " "}
WordTexts == SeqsUpTo(WordChars, MaxTextLen)

SentenceSet == {<<"a", ".">>, <<"a", "b", ".">>}
SentenceTexts ==
    {Join(ss, <<" ">>) : ss \in (SeqsUpTo(SentenceSet, MaxSentences) \ {<<>>})}

Windows == 0..MaxWindow

CxIdle == [pc |-> "idle"]

CxInit ==
    \E g \in {"word", "sentence"} :
        \E t \in (IF g = "word" THEN WordTexts ELSE SentenceTexts) :
            cx = [pc |-> "input", granularity |-> g, text |-> t]

\* One call with context_window and one with window2 >= context_window, on
\* the same text and offset.  The offset ranges over the text and one
\* position past the counter's total.
Extract ==
    /\ cx.pc = "input"
    /\ \E s \in 0..(Len(cx.text) + 2), w \in Windows, w2 \in Windows :
        /\ w <= w2
        /\ cx' = [pc |-> "done", granularity |-> cx.granularity, text |-> cx.text,
                  start_char |-> s, context_window |-> w, window2 |-> w2,
                  context |-> ExtractContext(cx.granularity, cx.text, s, w),
                  context2 |-> ExtractContext(cx.granularity, cx.text, s, w2)]

CxNext == Extract

(***************************************************************************)
(* The knowledge base the linkers query, as a fixed set of records.  What  *)
(* a record holds is what Special:EntityData/<qid>.json answers:           *)
(*   response      "ok" (status 200, well-formed), "not_found" (another    *)
(*                 status), "malformed" (status 200, but the body is not   *)
(*                 the entity: KeyError or a JSON error), "transport"      *)
(*                 (requests.get itself raises)                            *)
(*   type          the entity's kind                                       *)
(*   claims        property id -> list of claims                           *)
(*   labels, descriptions   language code -> text                          *)
(***************************************************************************)
EntityValue(id) == [kind |-> "entity", id |-> id, lit |-> "", idInText |-> FALSE]
Quantity(lit) == [kind |-> "quantity", id |-> "", lit |-> lit, idInText |-> FALSE]
\* A string value; idInText: the text has the substring "id".
StringValue(lit, idInText) == [kind |-> "string", id |-> "", lit |-> lit, idInText |-> idInText]

ValueClaim(value) == [snaktype |-> "value", value |-> value]
NoValueClaim == [snaktype |-> "novalue", value |-> Quantity("")]

NoRecord(response) ==
    [response |-> response, type |-> "", claims |-> <<>>, labels |-> <<>>, descriptions |-> <<>>]

DisambiguationDescription == "Wikimedia disambiguation page"

KB ==
    [ Q90 |-> [response |-> "ok", type |-> "item",
               claims |-> [P1082 |-> <<ValueClaim(Quantity("2145906"))>>,
                           P17 |-> <<ValueClaim(EntityValue("Q142"))>>],
               labels |-> [en |-> "Paris", de |-> "Paris"],
               descriptions |-> [en |-> "capital of France", de |-> "Hauptstadt"]],
      Q312 |-> [response |-> "ok", type |-> "item",
                claims |-> [P571 |-> <<ValueClaim(Quantity("1976"))>>,
                            P112 |-> <<ValueClaim(EntityValue("Q142")),
                                       ValueClaim(EntityValue("Q999"))>>],
                labels |-> [en |-> "Apple"],
                descriptions |-> [en |-> "technology company"]],
      Q225 |-> [response |-> "ok", type |-> "item",
                claims |-> [P31 |-> <<ValueClaim(EntityValue("Q142"))>>],
                labels |-> [en |-> "Amazon"],
                descriptions |-> [en |-> DisambiguationDescription]],
      Q365 |-> [response |-> "ok", type |-> "item",
                claims |-> [P1082 |-> <<ValueClaim(Quantity("1083498"))>>,
                            P571 |-> <<NoValueClaim>>],
                labels |-> [de |-> "Koeln"],
                descriptions |-> [de |-> "Stadt"]],
      Q18 |-> [response |-> "ok", type |-> "property",
               claims |-> [P1082 |-> <<ValueClaim(Quantity("1"))>>,
                           P571 |-> <<ValueClaim(Quantity("2"))>>],
               labels |-> [en |-> "population"],
               descriptions |-> [en |-> "number of people"]],
      Q404 |-> NoRecord("not_found"),
      Q302 |-> NoRecord("malformed"),
      Q500 |-> NoRecord("transport"),
      Q142 |-> [response |-> "ok", type |-> "item",
                claims |-> [P1082 |-> <<ValueClaim(Quantity("68000000"))>>],
                labels |-> [en |-> "France", de |-> "Frankreich"],
                descriptions |-> [en |-> "country", de |-> "Staat"]],
      Q999 |-> [response |-> "ok", type |-> "item",
                claims |-> <<>>,
                labels |-> <<>>,
                descriptions |-> <<>>] ]

\* The ids a search or a title lookup can answer with.
PageIds == {"Q90", "Q312", "Q225", "Q365", "Q18", "Q404", "Q302", "Q500"}

HasKey(dict, key) == key \in DOMAIN dict

(***************************************************************************)
(* CandidateFilter: filter_location_qids / filter_organization_qids.       *)
(***************************************************************************)
filter_properties(entity_type) ==
    IF entity_type = "loc" THEN {"P37", "P1082", "P150", "P1566"}
    ELSE {"P452", "P355", "P740", "P112", "P1128", "P571"}

\* The body of the filter loop for one id, given that requests.get returned:
\* TRUE when the id is appended to the result.
Accepts(qid, entity_type) ==
    /\ KB[qid].response = "ok"
    /\ KB[qid].type = "item"
    /\ \E prop \in filter_properties(entity_type) : HasKey(KB[qid].claims, prop)

\* filter_*_qids(qid_list): requests.get stands outside the try, so a
\* transport error leaves the function as an exception.
filter_qids(qid_list, entity_type) ==
    IF \E i \in DOMAIN qid_list : KB[qid_list[i]].response = "transport"
    THEN [raised |-> TRUE, qids |-> <<>>]
    ELSE [raised |-> FALSE,
          qids |-> SelectSeq(qid_list, LAMBDA qid : Accepts(qid, entity_type))]

(***************************************************************************)
(* CandidateRetriever: location_wikidata_search /                          *)
(* organization_wikidata_search.  search_results is the answer of the      *)
(* search request, a list of hits [title, snippet] in relevance order.     *)
(***************************************************************************)
\* np.linspace(1, 0.01, num)[i] as the fraction num / den.
linspace(num_results, i) ==
    LET den == 100 * Max(num_results - 1, 1)
    IN  [num |-> den - 99 * i, den |-> den]

\* The weight taken over the ids that survive the filter.
WeightOfMutant(num_results, results_qids, filtered_qids, qid) ==
    linspace(Len(filtered_qids), Index(filtered_qids, qid) - 1)

\* weights[results_qids.index(qid)], weights = np.linspace(1, 0.01, num_results)
WeightOf(num_results, results_qids, filtered_qids, qid) ==
    linspace(num_results, Index(results_qids, qid) - 1)

\* final_results without the test "qid in filtered_qids".
FinalResultsMutant(results_information, results_qids, filtered_qids, num_results) ==
    [k \in DOMAIN results_information |->
        [qid |-> results_information[k].title,
         snippet |-> results_information[k].snippet,
         weight |-> linspace(num_results, k - 1)]]

\* The dict comprehension that builds final_results, as the list of its
\* items in insertion order.
FinalResults(results_information, results_qids, filtered_qids, num_results) ==
    LET kept == SelectSeq(results_information,
                          LAMBDA r : r.title \in Range(filtered_qids))
    IN  [k \in DOMAIN kept |->
            [qid |-> kept[k].title,
             snippet |-> kept[k].snippet,
             weight |-> WeightOf(num_results, results_qids, filtered_qids, kept[k].title)]]

wikidata_search(search_results, num_results, entity_type) ==
    LET cut == SubSeq(search_results, 1, Min(num_results, Len(search_results)))
        results_information == SelectSeq(cut, LAMBDA result : result.snippet # "")
        results_qids == [k \in DOMAIN results_information |-> results_information[k].title]
        filtered == filter_qids(results_qids, entity_type)
    IN  IF filtered.raised THEN [raised |-> TRUE, final_results |-> <<>>]
        ELSE [raised |-> FALSE,
              final_results |->
                  FinalResults(results_information, results_qids, filtered.qids, num_results)]

(***************************************************************************)
(* The retrieval specification: a search answer, a result count and an     *)
(* entity type are drawn, and the retriever is applied.                    *)
(***************************************************************************)
SnippetOf(title) == "about " \o title

Hits == {[title |-> t, snippet |-> sn] : t \in PageIds, sn \in {""}} \cup
        {[title |-> t, snippet |-> SnippetOf(t)] : t \in PageIds}

\* A search answers with distinct pages.
SearchAnswers ==
    {h \in SeqsUpTo(Hits, MaxHits) :
        \A i, j \in DOMAIN h : i # j => h[i].title # h[j].title}

ResolverTypes == {"loc", "org"}

RtIdle == [pc |-> "idle"]

RtInit ==
    \E h \in SearchAnswers, n \in 0..MaxResults, ty \in ResolverTypes :
        rt = [pc |-> "input", search_results |-> h, num_results |-> n, entity_type |-> ty]

\* results_qids: the ids of the hits with a snippet among the first
\* num_results hits, the list the retriever hands to the filter.
ResultsQids(search_results, num_results) ==
    LET cut == SubSeq(search_results, 1, Min(num_results, Len(search_results)))
        results_information == SelectSeq(cut, LAMBDA result : result.snippet # "")
    IN  [k \in DOMAIN results_information |-> results_information[k].title]

\* qid_list and filtered are the argument and the outcome of the filter call
\* the retriever makes.
Retrieve ==
    /\ rt.pc = "input"
    /\ rt' = [rt EXCEPT !.pc = "done"] @@
             [out |-> wikidata_search(rt.search_results, rt.num_results, rt.entity_type),
              qid_list |-> ResultsQids(rt.search_results, rt.num_results),
              filtered |-> filter_qids(ResultsQids(rt.search_results, rt.num_results),
                                       rt.entity_type)]

RtNext == Retrieve


(***************************************************************************)
(* Disambiguator: context_entity_matching and entity_label_matching.  The  *)
(* sentence transformer is outside the program; cos_scores is what         *)
(* util.cos_sim answers for the query and the candidates, one cosine per   *)
(* candidate, in units of 1/2.                                             *)
(***************************************************************************)
\* cos_scores * np.array(entity_weights), as fractions.
WeightedScores(cos_scores, entity_weights) ==
    [k \in DOMAIN entity_weights |->
        [num |-> cos_scores[k] * entity_weights[k].num, den |-> entity_weights[k].den]]

ScoreLess(a, b) == a.num * b.den < b.num * a.den
ScoreEqual(a, b) == a.num * b.den = b.num * a.den

\* weighted_scores.max()
MaxScore(weighted_scores) ==
    LET k == CHOOSE i \in DOMAIN weighted_scores :
                 \A j \in DOMAIN weighted_scores :
                     ~ScoreLess(weighted_scores[i], weighted_scores[j])
    IN  weighted_scores[k]

\* The last position that holds the maximum.
TopEntityIdMutant(weighted_scores) ==
    LET max_score == MaxScore(weighted_scores)
    IN  CHOOSE i \in DOMAIN weighted_scores :
            /\ ScoreEqual(weighted_scores[i], max_score)
            /\ \A j \in DOMAIN weighted_scores :
                   ScoreEqual(weighted_scores[j], max_score) => j <= i

\* list(weighted_scores).index(max_score)
TopEntityId(weighted_scores) ==
    LET max_score == MaxScore(weighted_scores)
    IN  CHOOSE i \in DOMAIN weighted_scores :
            /\ ScoreEqual(weighted_scores[i], max_score)
            /\ \A j \in 1..(i - 1) : ~ScoreEqual(weighted_scores[j], max_score)

\* entity_candidates: the items of the CandidateSet, [qid, snippet, weight].
context_entity_matching(cos_scores, entity_candidates) ==
    LET entity_names == [k \in DOMAIN entity_candidates |-> entity_candidates[k].qid]
        entity_weights == [k \in DOMAIN entity_candidates |-> entity_candidates[k].weight]
    IN  entity_names[TopEntityId(WeightedScores(cos_scores, entity_weights))]

\* candidate_labels: the items of the dict label -> weight, [name, weight].
entity_label_matching(cos_scores, candidate_labels) ==
    LET entity_names == [k \in DOMAIN candidate_labels |-> candidate_labels[k].name]
        entity_weights == [k \in DOMAIN candidate_labels |-> candidate_labels[k].weight]
    IN  entity_names[TopEntityId(WeightedScores(cos_scores, entity_weights))]

(***************************************************************************)
(* The scoring specification: a CandidateSet (ids in search order, each    *)
(* with one of the weights of a requested result count) and the cosines    *)
(* are drawn, and one of the two matchers is applied.                      *)
(***************************************************************************)
CosValues == {-1, 0, 1, 2}

CandidateNames == <<"Q90", "Q312", "Q365", "Q225", "Q18">>

\* The candidate sets a retrieval with num_results slots can return: a
\* choice of slots, in order.
CandidateSets ==
    UNION {
        {LET slots == SortedSeq(chosen)
         IN  [k \in DOMAIN slots |->
                 [qid |-> CandidateNames[slots[k] + 1],
                  name |-> CandidateNames[slots[k] + 1],
                  snippet |-> "about " \o CandidateNames[slots[k] + 1],
                  weight |-> linspace(n, slots[k])]] :
            chosen \in (SUBSET (0..(n - 1))) \ {{}}} :
        n \in 1..MaxCandidates}

ScIdle == [pc |-> "idle"]

ScInit ==
    \E c \in CandidateSets, m \in {"context", "label"} :
        sc = [pc |-> "input", matcher |-> m, candidates |-> c]

\* The embedder answers with one cosine per candidate.
Match ==
    /\ sc.pc = "input"
    /\ \E cos \in [DOMAIN sc.candidates -> CosValues] :
        sc' = [pc |-> "done", matcher |-> sc.matcher, candidates |-> sc.candidates,
               cos_scores |-> cos,
               top_entity |-> IF sc.matcher = "context"
                              THEN context_entity_matching(cos, sc.candidates)
                              ELSE entity_label_matching(cos, sc.candidates)]

ScNext == Match

(***************************************************************************)
(* RecordProjector: extract_wikidata_entity_info.                          *)
(***************************************************************************)
FallbackLang == "en"

\* A label that replaces a referenced value in the output.
LabelValue(text) == [kind |-> "label", id |-> "", lit |-> text, idInText |-> FALSE]

\* "id" in value: a key test on a dict, a substring test on a str.
HasId(value) ==
    \/ value.kind = "entity"
    \/ value.kind = "string" /\ value.idInText

\* The try block for a value that has "id": the values it appends to
\* property_data.  Any exception inside it (value['id'] of a str, a
\* transport error, a missing entity, no label in lang_code or "en") is
\* caught and the value is skipped; so is an answer with another status.
ResolvedValue(value, lang_code) ==
    IF value.kind # "entity" THEN <<>>
    ELSE LET referenced == KB[value.id]
         IN  IF referenced.response # "ok" THEN <<>>
             ELSE IF HasKey(referenced.labels, lang_code)
             THEN <<LabelValue(referenced.labels[lang_code])>>
             ELSE IF HasKey(referenced.labels, FallbackLang)
             THEN <<LabelValue(referenced.labels[FallbackLang])>>
             ELSE <<>>

RECURSIVE PropertyData(_, _)
\* property_data after the loop over the claims of one property.
PropertyData(claim_list, lang_code) ==
    IF claim_list = <<>> THEN <<>>
    ELSE LET claim == claim_list[1]
             here == IF claim.snaktype # "value" THEN <<>>
                     ELSE IF HasId(claim.value) THEN ResolvedValue(claim.value, lang_code)
                     ELSE <<claim.value>>
         IN  here \o PropertyData(Tail(claim_list), lang_code)

Scalar(value) == [shape |-> "scalar", values |-> <<value>>]
List(values) == [shape |-> "list", values |-> values]

\* What is stored under the property's output field.
Collapse(property_data) ==
    IF Len(property_data) = 0 THEN List(property_data)
    ELSE IF Len(property_data) > 1 THEN List(property_data)
    ELSE Scalar(property_data[1])

\* The properties the loop "for prop in item_info['claims']" writes a field for.
ProjectedProps(item_info, entity_properties) ==
    {prop \in DOMAIN item_info.claims : prop \in DOMAIN entity_properties}

Failed == [raised |-> TRUE, entity_info |-> <<>>]

\* The body of extract_wikidata_entity_info once get_entity_info answered
\* with item_info; entity_properties maps property ids to field names.
ProjectRecord(item_info, entity_properties, lang_code) ==
    IF item_info.response = "transport" \/ item_info.response = "malformed" THEN Failed
    ELSE IF item_info.response = "not_found" THEN [raised |-> FALSE, entity_info |-> <<>>]
    ELSE IF ~HasKey(item_info.labels, lang_code) /\ ~HasKey(item_info.labels, FallbackLang)
    THEN Failed
    ELSE IF ~HasKey(item_info.descriptions, lang_code)
            /\ ~HasKey(item_info.descriptions, FallbackLang)
    THEN Failed
    ELSE LET entity_label ==
                 IF HasKey(item_info.labels, lang_code) THEN item_info.labels[lang_code]
                 ELSE item_info.labels[FallbackLang]
             description ==
                 IF HasKey(item_info.descriptions, lang_code)
                 THEN item_info.descriptions[lang_code]
                 ELSE item_info.descriptions[FallbackLang]
             props == ProjectedProps(item_info, entity_properties)
             fields == {"label", "description"} \cup {entity_properties[prop] : prop \in props}
         IN  [raised |-> FALSE,
              entity_info |->
                [f \in fields |->
                    IF f = "label" THEN Scalar(LabelValue(entity_label))
                    ELSE IF f = "description" THEN Scalar(LabelValue(description))
                    ELSE LET prop == CHOOSE q \in props : entity_properties[q] = f
                         IN  Collapse(PropertyData(item_info.claims[prop], lang_code))]]

extract_wikidata_entity_info(wikidata_qid, entity_properties, lang_code) ==
    ProjectRecord(KB[wikidata_qid], entity_properties, lang_code)

(***************************************************************************)
(* The projection specification: a record, a property schema and a         *)
(* language are drawn, and the projector is applied.                       *)
(***************************************************************************)
Langs == {"de", "en"}

FullSchema == [P1082 |-> "population", P112 |-> "founded_by"]
Schemas == {[prop \in D |-> FullSchema[prop]] : D \in SUBSET (DOMAIN FullSchema)}

Texts(langs) == [l \in langs |-> "text-" \o l]

\* The claims a property of a drawn record can hold.
ClaimChoices ==
    {ValueClaim(Quantity("12")),
     ValueClaim(StringValue("plain", FALSE)),
     ValueClaim(StringValue("Madrid", TRUE)),
     ValueClaim(EntityValue("Q142")),
     ValueClaim(EntityValue("Q999")),
     ValueClaim(EntityValue("Q404")),
     NoValueClaim}

ClaimLists == SeqsUpTo(ClaimChoices, MaxClaims) \ {<<>>}

\* P112 holds any list of claims or is absent; P1082 holds one quantity or
\* is absent; P31, which no schema asks for, is always there.
ClaimDicts ==
    {[P31 |-> <<ValueClaim(EntityValue("Q142"))>>]} \cup
    {[P31 |-> <<ValueClaim(EntityValue("Q142"))>>, P112 |-> cl] : cl \in ClaimLists} \cup
    {[P31 |-> <<ValueClaim(EntityValue("Q142"))>>,
      P1082 |-> <<ValueClaim(Quantity("7"))>>]} \cup
    {[P31 |-> <<ValueClaim(EntityValue("Q142"))>>,
      P1082 |-> <<ValueClaim(Quantity("7"))>>, P112 |-> cl] : cl \in ClaimLists}

Records ==
    {[response |-> "ok", type |-> "item", claims |-> c,
      labels |-> Texts(ll), descriptions |-> Texts(dl)] :
        c \in ClaimDicts, ll \in SUBSET Langs, dl \in SUBSET Langs}
    \cup {NoRecord(r) : r \in {"not_found", "malformed", "transport"}}

PjIdle == [pc |-> "idle"]

PjInit ==
    \E r \in Records, sch \in Schemas, l \in Langs :
        pj = [pc |-> "input", item_info |-> r, entity_properties |-> sch, lang_code |-> l]

Project ==
    /\ pj.pc = "input"
    /\ pj' = [pj EXCEPT !.pc = "done"] @@
             [out |-> ProjectRecord(pj.item_info, pj.entity_properties, pj.lang_code)]

PjNext == Project

(***************************************************************************)
(* The resolvers: location_entity_extraction and                           *)
(* organization_entity_extraction, with the exact-title lookup             *)
(* get_location_qnumber / get_organization_qnumber.                        *)
(***************************************************************************)
NoQid == "-1"

\* check_wikimedia_disambiguation_page(qid, "en"): "raise" when the entity
\* has no description in the language (KeyError), TRUE for a disambiguation
\* page, None for any other page, FALSE when the answer has no such entity.
check_wikimedia_disambiguation_page(qid, lang_code) ==
    IF qid = NoQid THEN "False"
    ELSE IF ~HasKey(KB[qid].descriptions, lang_code) THEN "raise"
    ELSE IF KB[qid].descriptions[lang_code] = DisambiguationDescription THEN "True"
    ELSE "None"

\* get_qnumber.  title_answer is what wbgetentities answers for the title:
\* "error" (no 'entities' in the answer), "-1" (no such title) or an id.
get_qnumber(title_answer) ==
    IF title_answer = "error" THEN [raised |-> TRUE, qid |-> NoQid]
    ELSE LET page == check_wikimedia_disambiguation_page(title_answer, "en")
         IN  IF page = "raise" THEN [raised |-> TRUE, qid |-> NoQid]
             ELSE IF page = "True" THEN [raised |-> FALSE, qid |-> NoQid]
             ELSE [raised |-> FALSE, qid |-> title_answer]

\* The lookup without the filter check on the id it found.
get_typed_qnumber_unfiltered(title_answer, entity_type) == get_qnumber(title_answer)

\* get_location_qnumber / get_organization_qnumber.
get_typed_qnumber(title_answer, entity_type) ==
    LET found == get_qnumber(title_answer)
    IN  IF found.raised THEN found
        ELSE IF found.qid = NoQid THEN [raised |-> FALSE, qid |-> NoQid]
        ELSE IF KB[found.qid].response = "transport" THEN [raised |-> TRUE, qid |-> NoQid]
        ELSE IF Accepts(found.qid, entity_type) THEN [raised |-> FALSE, qid |-> found.qid]
        ELSE [raised |-> FALSE, qid |-> NoQid]

(***************************************************************************)
(* The dispatcher: MultiEntityLinker.extract_entities.                     *)
(*   args   the arguments of the call                                      *)
(*   loop   the loop over entity_dict: the mention at hand, entity_info    *)
(*          (a local of the whole loop), what the iteration printed        *)
(*   call   the locals of the resolver call for the mention at hand        *)
(***************************************************************************)
stopwords == {"the"}

lower(token) == IF token = "The" THEN "the" ELSE token

\* A label is the list of its tokens; word_tokenize and ' '.join move
\* between the list and the string.
word_tokenize(entity_label) == entity_label

preprocess_entity_name(entity_label) ==
    LET title_tokens == word_tokenize(entity_label)
    IN  IF title_tokens = <<>> THEN [raised |-> TRUE, name |-> <<>>]
        ELSE IF lower(title_tokens[1]) \in stopwords
        THEN [raised |-> FALSE, name |-> Tail(title_tokens)]
        ELSE [raised |-> FALSE, name |-> entity_label]

\* entity_type.lower()
lower_type(entity_type) ==
    CASE entity_type \in {"PER", "per"} -> "per"
      [] entity_type \in {"ORG", "org"} -> "org"
      [] entity_type \in {"LOC", "loc"} -> "loc"
      [] entity_type \in {"GPE", "gpe"} -> "gpe"
      [] OTHER -> "misc"

Labels == {<<>>, <<"the">>, <<"the", "the">>, <<"The", "Hague">>, <<"Paris">>}
TypeTags == {"ORG", "LOC", "gpe", "PER", "MISC"}

MentionText == <<"a", "b", " ", "c">>
\* An offset inside the text and one past its end.
StartChars == {1, Len(MentionText) + 1}

\* The pages a search for a mention answers with.
MentionPages == {"Q312", "Q365", "Q500"}
MentionSearchAnswers ==
    {h \in SearchAnswers :
        Len(h) <= MaxMentionHits /\ \A k \in DOMAIN h : h[k].title \in MentionPages}

\* What wbgetentities answers for a title: a page the knowledge base holds,
\* no page, or an error.
TitleAnswers == {"error", NoQid} \cup {q \in PageIds : KB[q].response = "ok"}

Unbound == [bound |-> FALSE, of |-> 0, value |-> <<>>]
Bound(i, value) == [bound |-> TRUE, of |-> i, value |-> value]

NoMention == [label |-> <<>>, start_char |-> 0, entity_type |-> ""]
NoCall ==
    [entity_type |-> "", steps |-> <<>>, title_answer |-> "", qid |-> NoQid,
     search_results |-> <<>>, context |-> <<>>, accepted |-> {}, projected |-> <<>>]

ArgsIdle == [n |-> 0]
LoopIdle == [pc |-> "idle"]

MlInit ==
    /\ \E n \in 1..MaxMentions, k \in 0..MaxResults, w \in {0, 1}, l \in Langs :
        args = [n |-> n, text |-> MentionText, num_search_results |-> k,
                context_window |-> w, lang_code |-> l,
                organization_properties |-> FullSchema,
                location_properties |-> FullSchema]
    /\ loop = [pc |-> "loop", i |-> 1, seen |-> {}, mention |-> NoMention,
               processed_entity |-> <<>>, entity_info |-> Unbound, printed |-> 0]
    /\ call = NoCall

RaisedLoop == [loop EXCEPT !.pc = "raised"]

\* The head of one loop iteration: the next item of entity_dict (its keys,
\* the labels, are distinct), preprocess_entity_name, the test for an empty
\* name and the if/elif chain on the type.
Dispatch ==
    /\ loop.pc = "loop"
    /\ loop.i <= args.n
    /\ \E label \in Labels \ loop.seen, start_char \in StartChars, entity_type \in TypeTags :
        LET mention == [label |-> label, start_char |-> start_char,
                        entity_type |-> entity_type]
            processed == preprocess_entity_name(label)
            taken == [loop EXCEPT !.seen = @ \cup {label}, !.mention = mention,
                                  !.processed_entity = processed.name, !.printed = 0]
            ty == lower_type(entity_type)
        IN  /\ call' = IF ~processed.raised /\ processed.name # <<>>
                          /\ ty \in {"org", "loc", "gpe"}
                       THEN [NoCall EXCEPT !.entity_type = IF ty = "org" THEN "org" ELSE "loc"]
                       ELSE NoCall
            /\ loop' = IF processed.raised THEN [taken EXCEPT !.pc = "raised"]
                       ELSE IF processed.name = <<>> THEN [taken EXCEPT !.i = @ + 1]
                       ELSE IF ty = "per" THEN [taken EXCEPT !.pc = "person"]
                       ELSE IF ty \in {"org", "loc", "gpe"} THEN [taken EXCEPT !.pc = "exact"]
                       ELSE [taken EXCEPT !.pc = "report"]
    /\ UNCHANGED <<args, cx, rt, sc, pj>>

\* person_entity_extraction returns a record or an empty result.
PersonResults == {<<>>, [label |-> Scalar(LabelValue("person"))]}

PersonResolve ==
    /\ loop.pc = "person"
    /\ \E result \in PersonResults :
        loop' = [loop EXCEPT !.pc = "report", !.entity_info = Bound(loop.i, result)]
    /\ UNCHANGED <<args, call, cx, rt, sc, pj>>

\* The ids for which the filter check inside get_location_qnumber /
\* get_organization_qnumber is reached and succeeds.
AcceptedAtLookup(title_answer, entity_type) ==
    LET found == get_qnumber(title_answer)
    IN  IF found.raised \/ found.qid = NoQid THEN {}
        ELSE {qid \in {found.qid} : Accepts(qid, entity_type)}

\* The ids the filter call inside the search appends to its result.
AcceptedAtSearch(search_results, num_results, entity_type) ==
    LET filtered == filter_qids(ResultsQids(search_results, num_results), entity_type)
    IN  IF filtered.raised THEN {} ELSE Range(filtered.qids)

\* The exact-title lookup that opens a resolver call.  accepted collects the
\* ids the type's filter accepted during the call, projected the ids handed
\* to extract_wikidata_entity_info.
ExactLookup ==
    /\ loop.pc = "exact"
    /\ \E title_answer \in TitleAnswers :
        LET found == get_typed_qnumber(title_answer, call.entity_type)
        IN  /\ call' = [call EXCEPT !.steps = Append(@, "exact"),
                                    !.title_answer = title_answer,
                                    !.qid = found.qid,
                                    !.accepted = AcceptedAtLookup(title_answer,
                                                                  call.entity_type)]
            /\ loop' = IF found.raised THEN RaisedLoop
                       ELSE IF found.qid # NoQid THEN [loop EXCEPT !.pc = "project"]
                       ELSE [loop EXCEPT !.pc = "search"]
    /\ UNCHANGED <<args, cx, rt, sc, pj>>

\* location_wikidata_search / organization_wikidata_search for the name.
Search ==
    /\ loop.pc = "search"
    /\ \E answer \in MentionSearchAnswers :
        LET found == wikidata_search(answer, args.num_search_results, call.entity_type)
        IN  /\ call' = [call EXCEPT !.steps = Append(@, "search"),
                                    !.search_results = found.final_results,
                                    !.accepted = @ \cup
                                        AcceptedAtSearch(answer, args.num_search_results,
                                                         call.entity_type)]
            /\ loop' = IF found.raised THEN RaisedLoop ELSE [loop EXCEPT !.pc = "context"]
    /\ UNCHANGED <<args, cx, rt, sc, pj>>

\* extract_context_by_words, then the test "search_results == {}".
Context ==
    /\ loop.pc = "context"
    /\ LET found == extract_context_by_words(args.text, loop.mention.start_char,
                                             args.context_window)
       IN  /\ call' = [call EXCEPT !.steps = Append(@, "context"), !.context = found.value]
           /\ loop' = IF found.raised THEN RaisedLoop
                      ELSE IF call.search_results = <<>>
                      THEN [loop EXCEPT !.pc = "report", !.entity_info = Bound(loop.i, <<>>)]
                      ELSE [loop EXCEPT !.pc = "score"]
    /\ UNCHANGED <<args, cx, rt, sc, pj>>

\* context_entity_matching over the candidates.
Score ==
    /\ loop.pc = "score"
    /\ \E cos \in [DOMAIN call.search_results -> CosValues] :
        call' = [call EXCEPT !.steps = Append(@, "score"),
                             !.qid = context_entity_matching(cos, call.search_results)]
    /\ loop' = [loop EXCEPT !.pc = "project"]
    /\ UNCHANGED <<args, cx, rt, sc, pj>>

\* extract_wikidata_entity_info for the exact match or the top entity; its
\* result is what the resolver returns.
ProjectEntity ==
    /\ loop.pc = "project"
    /\ LET schema == IF call.entity_type = "org" THEN args.organization_properties
                     ELSE args.location_properties
           out == extract_wikidata_entity_info(call.qid, schema, args.lang_code)
       IN  /\ call' = [call EXCEPT !.steps = Append(@, "project"),
                                   !.projected = Append(@, call.qid)]
           /\ loop' = IF out.raised THEN RaisedLoop
                      ELSE [loop EXCEPT !.pc = "report",
                                        !.entity_info = Bound(loop.i, out.entity_info)]
    /\ UNCHANGED <<args, cx, rt, sc, pj>>

\* pprint(entity_info) and the end of the iteration; printed is the mention
\* whose resolution entity_info comes from.
Report ==
    /\ loop.pc = "report"
    /\ loop' = IF ~loop.entity_info.bound THEN RaisedLoop
               ELSE [loop EXCEPT !.pc = "loop", !.i = @ + 1, !.printed = loop.entity_info.of]
    /\ UNCHANGED <<args, call, cx, rt, sc, pj>>

\* The loop ran out of mentions: extract_entities returns.
Finish ==
    /\ loop.pc = "loop"
    /\ loop.i > args.n
    /\ loop' = [loop EXCEPT !.pc = "done"]
    /\ UNCHANGED <<args, call, cx, rt, sc, pj>>

(***************************************************************************)
(* Specifications.  Each one runs one component; the state of the others   *)
(* stays idle.                                                             *)
(***************************************************************************)
MlIdle == args = ArgsIdle /\ loop = LoopIdle /\ call = NoCall

InitContext == CxInit /\ rt = RtIdle /\ sc = ScIdle /\ pj = PjIdle /\ MlIdle
NextContext == CxNext /\ UNCHANGED <<rt, sc, pj, args, loop, call>>
SpecContext == InitContext /\ [][NextContext]_vars

InitRetrieve == RtInit /\ cx = CxIdle /\ sc = ScIdle /\ pj = PjIdle /\ MlIdle
NextRetrieve == RtNext /\ UNCHANGED <<cx, sc, pj, args, loop, call>>
SpecRetrieve == InitRetrieve /\ [][NextRetrieve]_vars

InitScore == ScInit /\ cx = CxIdle /\ rt = RtIdle /\ pj = PjIdle /\ MlIdle
NextScore == ScNext /\ UNCHANGED <<cx, rt, pj, args, loop, call>>
SpecScore == InitScore /\ [][NextScore]_vars

InitProject == PjInit /\ cx = CxIdle /\ rt = RtIdle /\ sc = ScIdle /\ MlIdle
NextProject == PjNext /\ UNCHANGED <<cx, rt, sc, args, loop, call>>
SpecProject == InitProject /\ [][NextProject]_vars

Init == MlInit /\ cx = CxIdle /\ rt = RtIdle /\ sc = ScIdle /\ pj = PjIdle
Next ==
    \/ Dispatch
    \/ PersonResolve
    \/ ExactLookup
    \/ Search
    \/ Context
    \/ Score
    \/ ProjectEntity
    \/ Report
    \/ Finish
Spec == Init /\ [][Next]_vars

(***************************************************************************)
(* Claims about context extraction.  The units of a text lie in it one     *)
(* after the other with one separator character between two units; unit i  *)
(* starts at UnitStart and owns its characters and the separator after it. *)
(***************************************************************************)
UnitStart(units, i) == CumulativeCount(units, 1, i - 1)

ContainingUnit(units, offset) ==
    CHOOSE i \in DOMAIN units :
        UnitStart(units, i) <= offset /\ offset <= UnitStart(units, i) + Len(units[i])

CxDone == cx.pc = "done"
CxInRange == CxDone /\ cx.start_char < Len(cx.text)
CxUnits == Units(cx.granularity, cx.text)

\* ids is a run of consecutive indices in ascending order.
IsRun(ids) == \A k \in 1..(Len(ids) - 1) : ids[k + 1] = ids[k] + 1

\* small occurs in big as a block of neighbouring elements.
IsSubRange(small, big) ==
    \E k \in 0..(Len(big) - Len(small)) :
        \A j \in DOMAIN small : big[k + j] = small[j]

\* C8: with window 0 and a start offset inside the text, extraction (words
\* and sentences) returns exactly one unit, and it is the unit that contains
\* the character at the start offset.
C8_WindowZeroContainingUnit ==
    (CxInRange /\ cx.context_window = 0) =>
        /\ ~cx.context.raised
        /\ Len(cx.context.ids) = 1
        /\ cx.context.value = CxUnits[ContainingUnit(CxUnits, cx.start_char)]

\* C9: for an in-range start offset and any window, at both granularities,
\* the returned context is a contiguous run of the text's units, each once
\* and in the order of the text.
C9_ContiguousOrderedRun ==
    (CxInRange /\ ~cx.context.raised) =>
        /\ IsRun(cx.context.ids)
        /\ \A k \in DOMAIN cx.context.ids : cx.context.ids[k] \in 0..(Len(CxUnits) - 1)

\* C10: for an in-range start offset and windows w1 <= w2, the sequence of
\* units selected with w1 is a sub-range of the sequence selected with w2.
C10_WindowMonotone ==
    (CxInRange /\ ~cx.context.raised /\ ~cx.context2.raised) =>
        IsSubRange(cx.context.ids, cx.context2.ids)

\* The indices max(0, a - w) .. min(last, a + w) around the Python index a.
WindowAround(n, a, w) == [k \in 1..(Min(n - 1, a + w) - Max(0, a - w) + 1) |-> Max(0, a - w) + k - 1]

\* C11: when the start offset is larger than the length of the text,
\* extraction (words and sentences) does not fail: it anchors to the last
\* unit and returns the window around that last unit.
C11_PastEndAnchorsLastUnit ==
    (CxDone /\ cx.start_char > Len(cx.text)) =>
        /\ ~cx.context.raised
        /\ cx.context.ids = WindowAround(Len(CxUnits), Len(CxUnits) - 1, cx.context_window)

\* The position of the first unit whose cumulative count exceeds the offset.
FirstExceeding(units, extra, offset) ==
    LET hits == {i \in DOMAIN units : CumulativeCount(units, extra, i) > offset}
    IN  CHOOSE i \in hits : \A j \in hits : i <= j

\* C16: at word granularity, for every text (tokens need not be distinct),
\* every in-range start offset and every window w >= 1, the result is the
\* tokens at the indices max(0, a - w) .. min(last, a + w) joined by single
\* spaces, where a is the index of the first token whose cumulative count
\* (token lengths plus 1 per token) exceeds the start offset.
C16_WordWindowAtMention ==
    (CxInRange /\ cx.granularity = "word" /\ cx.context_window >= 1) =>
        LET a == FirstExceeding(CxUnits, 1, cx.start_char) - 1
            ids == WindowAround(Len(CxUnits), a, cx.context_window)
        IN  /\ ~cx.context.raised
            /\ cx.context.ids = ids
            /\ cx.context.value = Join([k \in DOMAIN ids |-> CxUnits[ids[k] + 1]], <<" ">>)

(***************************************************************************)
(* Claims about retrieval.                                                 *)
(***************************************************************************)
RtDone == rt.pc = "done"
RtReturned == RtDone /\ ~rt.out.raised
RtCandidates == rt.out.final_results

\* The position (from 1) of the hit with this title in the search answer.
HitPosition(title) ==
    CHOOSE i \in DOMAIN rt.search_results : rt.search_results[i].title = title

\* The number of hits with a snippet that the search ranks before position i.
SnippetHitsBefore(i) ==
    Cardinality({j \in 1..(i - 1) : rt.search_results[j].snippet # ""})

SameWeight(w1, w2) == w1.num * w2.den = w2.num * w1.den
Heavier(w1, w2) == w1.num * w2.den > w2.num * w1.den

StrictlyDecreasingWeights ==
    \A i, j \in DOMAIN RtCandidates :
        i < j =>
            /\ HitPosition(RtCandidates[i].qid) < HitPosition(RtCandidates[j].qid)
            /\ Heavier(RtCandidates[i].weight, RtCandidates[j].weight)

\* C2: every id in the CandidateSet the retriever returns was accepted by
\* the CandidateFilter of the entity type, for every search answer, result
\* count and entity type.
C2_CandidatesPassedFilter ==
    RtReturned =>
        \A k \in DOMAIN RtCandidates : Accepts(RtCandidates[k].qid, rt.entity_type)

\* A returned, non-empty CandidateSet from an answer in which the filter
\* rejected a hit that had a snippet.
C2_Witness ==
    /\ RtReturned
    /\ RtCandidates # <<>>
    /\ \E i \in 1..Min(rt.num_results, Len(rt.search_results)) :
        /\ rt.search_results[i].snippet # ""
        /\ ~Accepts(rt.search_results[i].title, rt.entity_type)

\* C3 as claimed: a candidate's prior weight is the interpolation point of
\* its rank in the search engine's result list, whatever was discarded
\* (empty snippet or filter), and the weights strictly decrease with rank.
C3_WeightOfSearchRank ==
    RtReturned =>
        /\ \A k \in DOMAIN RtCandidates :
            SameWeight(RtCandidates[k].weight,
                       linspace(rt.num_results, HitPosition(RtCandidates[k].qid) - 1))
        /\ StrictlyDecreasingWeights

\* C3 as amended: a candidate's prior weight is the interpolation point, over
\* the requested result_count slots, of its rank among the hits that have a
\* snippet (a hit without a snippet takes no slot); the weights strictly
\* decrease with search rank and do not depend on what the filter discards.
C3_WeightOfSnippetRank ==
    RtReturned =>
        /\ \A k \in DOMAIN RtCandidates :
            SameWeight(RtCandidates[k].weight,
                       linspace(rt.num_results,
                                SnippetHitsBefore(HitPosition(RtCandidates[k].qid))))
        /\ StrictlyDecreasingWeights

\* Two candidates returned although the filter rejected a hit with a snippet
\* that the search ranked before the second one.
C3_Witness ==
    /\ RtReturned
    /\ Len(RtCandidates) >= 2
    /\ \E i \in 1..(HitPosition(RtCandidates[2].qid) - 1) :
        /\ rt.search_results[i].snippet # ""
        /\ ~Accepts(rt.search_results[i].title, rt.entity_type)

\* The record is there, its kind is "item" and it has a claim for a filter
\* property of the type; every failed lookup counts as not there.
IsTypedItem(qid, entity_type) ==
    /\ KB[qid].response = "ok"
    /\ KB[qid].type = "item"
    /\ filter_properties(entity_type) \cap DOMAIN KB[qid].claims # {}

\* C12: the CandidateFilter accepts an id if and only if the record is an
\* item with a claim for a filter property of the type; a lookup failure
\* (unknown id, non-200 response, malformed data, transport error) rejects
\* that id, is not propagated, and the remaining ids are still filtered.
C12_FilterRejectsFailedLookups ==
    RtDone =>
        /\ ~rt.filtered.raised
        /\ rt.filtered.qids =
               SelectSeq(rt.qid_list, LAMBDA qid : IsTypedItem(qid, rt.entity_type))

(***************************************************************************)
(* Claims about scoring.                                                   *)
(***************************************************************************)
ScDone == sc.pc = "done"

\* The weighted score of candidate k: cosine times prior weight.
ScScore(k) ==
    [num |-> sc.cos_scores[k] * sc.candidates[k].weight.num,
     den |-> sc.candidates[k].weight.den]

\* The position of the returned candidate in the CandidateSet.
ScTop == CHOOSE k \in DOMAIN sc.candidates : sc.candidates[k].qid = sc.top_entity

\* C6: for every non-empty CandidateSet both matchers return the candidate
\* whose weighted score is the maximum, and among several at the maximum the
\* first one in the CandidateSet's iteration order.
C6_ArgmaxFirst ==
    ScDone =>
        /\ \E k \in DOMAIN sc.candidates : sc.candidates[k].qid = sc.top_entity
        /\ \A j \in DOMAIN sc.candidates : ~ScoreLess(ScScore(ScTop), ScScore(j))
        /\ \A j \in 1..(ScTop - 1) : ScoreLess(ScScore(j), ScScore(ScTop))

\* A match of three candidates in which a later candidate ties with the
\* returned one at the maximum and another candidate scores less.
C6_Witness ==
    /\ ScDone
    /\ Len(sc.candidates) = 3
    /\ \E j \in DOMAIN sc.candidates : j > ScTop /\ ScoreEqual(ScScore(j), ScScore(ScTop))
    /\ \E j \in DOMAIN sc.candidates : ScoreLess(ScScore(j), ScScore(ScTop))

(***************************************************************************)
(* Claims about projection.                                                *)
(***************************************************************************)
PjDone == pj.pc = "done"
\* The projector returned a record for a record the knowledge base holds.
PjProjected == PjDone /\ pj.item_info.response = "ok" /\ ~pj.out.raised

\* C7: the projected record has the output field of every property id of
\* the schema, a scalar when exactly one value was extracted and a list when
\* zero or at least two were; a requested property is never left out, not
\* even when the record has no value or no claim for it.
C7_EveryRequestedField ==
    PjProjected =>
        \A prop \in DOMAIN pj.entity_properties :
            /\ pj.entity_properties[prop] \in DOMAIN pj.out.entity_info
            /\ LET entry == pj.out.entity_info[pj.entity_properties[prop]]
               IN  (entry.shape = "scalar") <=> (Len(entry.values) = 1)

\* The label of a referenced record, in the requested language or else in
\* the fallback language; the empty sequence when the reference does not
\* resolve.
ReferencedLabel(id, lang_code) ==
    IF KB[id].response # "ok" THEN <<>>
    ELSE IF lang_code \in DOMAIN KB[id].labels THEN <<LabelValue(KB[id].labels[lang_code])>>
    ELSE IF FallbackLang \in DOMAIN KB[id].labels
    THEN <<LabelValue(KB[id].labels[FallbackLang])>>
    ELSE <<>>

RECURSIVE ExpectedValues(_, _)
\* The values of a claim list in claim order: a reference replaced by the
\* referenced label or dropped when it does not resolve, any other value
\* verbatim.
ExpectedValues(claim_list, lang_code) ==
    IF claim_list = <<>> THEN <<>>
    ELSE LET claim == claim_list[1]
             here == IF claim.snaktype # "value" THEN <<>>
                     ELSE IF claim.value.kind = "entity"
                     THEN ReferencedLabel(claim.value.id, lang_code)
                     ELSE <<claim.value>>
         IN  here \o ExpectedValues(Tail(claim_list), lang_code)

\* The record has a label and a description in the requested or the
\* fallback language.
HasTexts(item_info, lang_code) ==
    /\ {lang_code, FallbackLang} \cap DOMAIN item_info.labels # {}
    /\ {lang_code, FallbackLang} \cap DOMAIN item_info.descriptions # {}

\* C15: for every claim value of a requested property, a value that is not
\* a reference appears in the output verbatim, a reference is replaced by
\* the referenced record's label, and a reference that does not resolve
\* drops only that value; the surviving values keep the claim order, and no
\* single value makes the projection of the record fail.
C15_ValuesVerbatimOrResolved ==
    (PjDone /\ pj.item_info.response = "ok" /\ HasTexts(pj.item_info, pj.lang_code)) =>
        /\ ~pj.out.raised
        /\ \A prop \in DOMAIN pj.entity_properties \cap DOMAIN pj.item_info.claims :
              /\ pj.entity_properties[prop] \in DOMAIN pj.out.entity_info
              /\ pj.out.entity_info[pj.entity_properties[prop]].values =
                     ExpectedValues(pj.item_info.claims[prop], pj.lang_code)

(***************************************************************************)
(* Claims about the dispatcher and the resolvers.                          *)
(***************************************************************************)
InResolver == call.entity_type # ""
LastStep == IF call.steps = <<>> THEN "" ELSE call.steps[Len(call.steps)]
IsDisambiguationPage(qid) ==
    /\ HasKey(KB[qid].descriptions, "en")
    /\ KB[qid].descriptions["en"] = DisambiguationDescription

\* C1: a failure while resolving one mention never prevents the processing
\* of the mentions that follow: when a resolver call has failed, no mention
\* after the one at hand is left that will not be dispatched.
C1_FailureKeepsLoopGoing ==
    (loop.pc = "raised" /\ InResolver /\ call.steps # <<>>) => loop.i = args.n

\* C4: when the exact-title lookup has answered with a record that passes
\* the resolver's type filter and is not a disambiguation page, the
\* resolver projects that record and performs no retrieval; when it has
\* answered with no such record, the resolver goes on to retrieval.
C4_ExactMatchProjected ==
    (InResolver /\ LastStep = "exact" /\ call.title_answer # "error") =>
        IF /\ call.title_answer # NoQid
           /\ Accepts(call.title_answer, call.entity_type)
           /\ ~IsDisambiguationPage(call.title_answer)
        THEN loop.pc = "project" /\ call.qid = call.title_answer
        ELSE loop.pc = "search"

\* C5: when the exact lookup missed and retrieval has returned no candidate,
\* the resolver ends with an empty result and without an error.
C5_EmptyRetrievalEmptyResult ==
    (InResolver /\ LastStep = "context" /\ call.search_results = <<>>) =>
        /\ loop.pc # "raised"
        /\ loop.entity_info.bound
        /\ DOMAIN loop.entity_info.value = {}

\* The mention at hand has a name left after normalization and a type tag
\* that is none of PER, ORG, LOC, GPE.
UnknownTypeAtHand ==
    /\ loop.pc # "idle"
    /\ loop.mention # NoMention
    /\ loop.processed_entity # <<>>
    /\ lower_type(loop.mention.entity_type) = "misc"

\* C13: a mention whose type tag is none of PER, ORG, LOC, GPE is silently
\* skipped, wherever it stands in the input: no resolver is called for it,
\* no error is raised and no result of an earlier mention is reported for it.
C13_UnknownTypeSkipped ==
    UnknownTypeAtHand =>
        /\ call = NoCall
        /\ loop.pc # "raised"
        /\ loop.printed = 0

\* A mention has been taken from entity_dict and normalized.
MentionAtHand == loop.pc # "idle" /\ loop.mention # NoMention

\* The label without its first token when that token, lower-cased, is a
\* stopword; the label itself otherwise.
Normalized(label) ==
    IF label # <<>> /\ lower(label[1]) \in stopwords
    THEN SubSeq(label, 2, Len(label))
    ELSE label

\* C14: normalization removes exactly one leading token when that token,
\* lower-cased, is a stopword and otherwise returns the label unchanged; a
\* mention whose normalized label is empty, the empty label included, is
\* skipped without error and without calling any resolver.
C14_NormalizeAndSkipEmpty ==
    MentionAtHand =>
        /\ loop.processed_entity = Normalized(loop.mention.label)
        /\ Normalized(loop.mention.label) = <<>> =>
              /\ call = NoCall
              /\ loop.pc \in {"loop", "done"}

\* The ids of the CandidateSet that retrieval returned for the mention.
CandidateIds == {call.search_results[k].qid : k \in DOMAIN call.search_results}

\* C17: in a resolver call, every record id handed to the projector was
\* accepted by the type's CandidateFilter during this call; on the scoring
\* path it is a member of the CandidateSet that retrieval returned for the
\* mention; at most one record is projected per mention.
C17_ProjectedIdWasAccepted ==
    InResolver =>
        /\ Len(call.projected) <= 1
        /\ \A k \in DOMAIN call.projected :
              /\ call.projected[k] \in call.accepted
              /\ "score" \in Range(call.steps) => call.projected[k] \in CandidateIds

\* A call that projected on the scoring path, after a title answer the
\* filter rejected, the second of at least two candidates.
C17_Witness ==
    /\ InResolver
    /\ call.steps = <<"exact", "search", "context", "score", "project">>
    /\ call.title_answer \in PageIds
    /\ call.title_answer \notin call.accepted
    /\ Len(call.search_results) >= 2
    /\ call.projected = <<call.search_results[2].qid>>
    /\ loop.pc = "report"

====
